---- MODULE Spec2Model ----
(***************************************************************************)
(* Model of the HLS transcode job engine (transcode.js, 4-bitrate ladder   *)
(* version) together with the routes of index.js that drive it.            *)
(*                                                                         *)
(* One step of the model is one run-to-completion turn of the JavaScript   *)
(* event loop: the code between two awaits is atomic, so an action covers  *)
(* everything a handler does up to the next await (the next encoder        *)
(* process it spawns or the archive it starts).                            *)
(***************************************************************************)
EXTENDS Integers, Sequences, FiniteSets, TLC

\* ------------------------------------------------------------------ bounds
MaxSubmits == 2      \* submissions (pipelines) in one behaviour
MaxFiles == 2        \* files in one submission
MaxTime == 1         \* minutes the clock advances
MaxThreshold == 1    \* largest sweep threshold tried, in minutes
MaxSegments == 1     \* segment files one variant encode leaves behind
MaxSync == 1         \* synchronous submissions in one behaviour
MaxSubmitsBesideSync == 1   \* job submissions beside the synchronous ones

\* ------------------------------------------------------- program constants
MsPerMinute == 60 * 1000

Pipes == 1..MaxSubmits
SyncReqs == 1..MaxSync
\* the ids of the jobs, and after them those of the synchronous requests
JobIds == 1..(MaxSubmits + MaxSync)
SyncId(r) == MaxSubmits + r

\* original file names, as character sequences
Mp3Ext == <<".", "m", "p", "3">>
FileNames == { <<"a">> \o Mp3Ext, <<"b">> \o Mp3Ext }
FileLists == UNION { [1..n -> FileNames] : n \in 1..MaxFiles }

\* null and non-null values of the nullable fields
None == <<>>
Some(x) == <<x>>

\* the ladder as it would be with its entries listed from the highest bitrate down
BITRATE_LADDER_DESCENDING ==
    << [name |-> "premium", bitrate |-> "128k", bandwidth |-> 192000],
       [name |-> "high", bitrate |-> "96k", bandwidth |-> 144000],
       [name |-> "medium", bitrate |-> "64k", bandwidth |-> 96000],
       [name |-> "low", bitrate |-> "32k", bandwidth |-> 48000] >>

BITRATE_LADDER ==
    << [name |-> "low", bitrate |-> "32k", bandwidth |-> 48000],
       [name |-> "medium", bitrate |-> "64k", bandwidth |-> 96000],
       [name |-> "high", bitrate |-> "96k", bandwidth |-> 144000],
       [name |-> "premium", bitrate |-> "128k", bandwidth |-> 192000] >>

ReservedDir == <<"u", "p", "l", "o", "a", "d", "s">>

VARIABLES
    store,        \* the Map jobs: job id -> reference to a job object, 0 when absent
    job,          \* the job objects, by the pipeline that created them (the local `job`)
    pc,           \* where each pipeline stands: idle, encoding, archiving, done
    files,        \* the files argument of each pipeline (original names, in order)
    fi,           \* index of the file the loop of transcode is at
    vi,           \* index of the ladder variant whose encoder process is running
    totalSegments,\* the accumulator of transcodeFile
    zipItems,     \* the folders handed to archive.directory, 0-or-1 set per pipeline
    disk,         \* per job id: the job directory under TEMP_DIR
    now,          \* Date.now(), in milliseconds
    crash,        \* up, doomed (an unhandled error event is queued), down
    inputOk,      \* the running encoder was spawned with its source file on disk
    results,      \* history: outcome of each package build of a pipeline, in order
    zipResult,    \* history: how createZipArchive settled: none, closed, or the error
    deleted,      \* history: what deleted the pipeline's job while it was running
    lateStarts,   \* history: an encoder invocation or an archive was begun after that
    sync          \* the requests of POST /api/transcode-sync, see IdleRequest

vars == << store, job, pc, files, fi, vi, totalSegments, zipItems, disk, now,
           crash, inputOk, results, zipResult, deleted, lateStarts, sync >>

\* ------------------------------------------------------------ pure helpers
\* path.basename(fileName, '.mp3'): the name with a trailing ".mp3" removed
HasSuffix(s, suf) ==
    /\ Len(suf) <= Len(s)
    /\ SubSeq(s, Len(s) - Len(suf) + 1, Len(s)) = suf

Basename(fileName) ==
    IF fileName = Mp3Ext THEN <<>>
    ELSE IF HasSuffix(fileName, Mp3Ext)
         THEN SubSeq(fileName, 1, Len(fileName) - Len(Mp3Ext))
         ELSE fileName

\* files.filter(f => f.status === s).length
CountStatus(fs, s) == Cardinality({ k \in 1..Len(fs) : fs[k].status = s })

\* the lookup as it would be if it returned the last match
FindIndexLast(fs, fileName) ==
    IF \E k \in 1..Len(fs) : fs[k].name = fileName
    THEN CHOOSE k \in 1..Len(fs) :
            /\ fs[k].name = fileName
            /\ \A m \in (k + 1)..Len(fs) : fs[m].name # fileName
    ELSE 0

\* files.find(f => f.name === fileName): index of the first match, 0 if none
FindIndex(fs, fileName) ==
    IF \E k \in 1..Len(fs) : fs[k].name = fileName
    THEN CHOOSE k \in 1..Len(fs) :
            /\ fs[k].name = fileName
            /\ \A m \in 1..(k - 1) : fs[m].name # fileName
    ELSE 0

\* the merge as it would be if it took over the status only
ObjectAssignStatusOnly(file, updates) == [file EXCEPT !.status = updates.status]

\* Object.assign(file, updates)
ObjectAssign(file, updates) ==
    [f \in DOMAIN file |-> IF f \in DOMAIN updates THEN updates[f] ELSE file[f]]

\* the entry of initJob as it would be if files started out as processing
NewFileEntryProcessing(fileName) ==
    [name |-> fileName, status |-> "processing", hlsFolder |-> None,
     segmentCount |-> 0, error |-> None]

NewFileEntry(fileName) ==
    [name |-> fileName, status |-> "pending", hlsFolder |-> None,
     segmentCount |-> 0, error |-> None]

\* initJob as it would be if a job started out pending and turned processing later
NewJobPending(jobId, fl, t) ==
    [jobId |-> jobId, status |-> "pending", startedAt |-> t,
     files |-> [k \in 1..Len(fl) |-> NewFileEntry(fl[k])],
     completedFiles |-> 0, failedFiles |-> 0,
     zipPath |-> None, error |-> None, completedAt |-> None]

\* the job object initJob builds
NewJob(jobId, fl, t) ==
    [jobId |-> jobId, status |-> "processing", startedAt |-> t,
     files |-> [k \in 1..Len(fl) |-> NewFileEntry(fl[k])],
     completedFiles |-> 0, failedFiles |-> 0,
     zipPath |-> None, error |-> None, completedAt |-> None]

\* updateFileStatus as it would be with counters bumped on each update
\* instead of recomputed from the entries
UpdateFileStatusIncrementing(st, hp, jobId, fileName, updates) ==
    IF st[jobId] = 0 THEN hp
    ELSE LET r == st[jobId]
             k == FindIndex(hp[r].files, fileName)
             fs1 == IF k = 0 THEN hp[r].files
                    ELSE [hp[r].files EXCEPT ![k] = ObjectAssign(@, updates)]
         IN [hp EXCEPT ![r] =
               [@ EXCEPT !.files = fs1,
                         !.completedFiles =
                            IF updates.status = "completed" THEN @ + 1 ELSE @,
                         !.failedFiles =
                            IF updates.status = "failed" THEN @ + 1 ELSE @]]

\* updateFileStatus as it would be if an update for an unknown name added an entry
UpdateFileStatusUpserts(st, hp, jobId, fileName, updates) ==
    IF st[jobId] = 0 THEN hp
    ELSE LET r == st[jobId]
             k == FindIndex(hp[r].files, fileName)
             fs1 == IF k = 0
                    THEN Append(hp[r].files, ObjectAssign(NewFileEntry(fileName), updates))
                    ELSE [hp[r].files EXCEPT ![k] = ObjectAssign(@, updates)]
         IN [hp EXCEPT ![r] = [@ EXCEPT !.files = fs1,
                                        !.completedFiles = CountStatus(fs1, "completed"),
                                        !.failedFiles = CountStatus(fs1, "failed")]]

\* updateFileStatus on store st and heap hp: the heap afterwards
UpdateFileStatus(st, hp, jobId, fileName, updates) ==
    IF st[jobId] = 0 THEN hp
    ELSE LET r == st[jobId]
             k == FindIndex(hp[r].files, fileName)
             fs1 == IF k = 0 THEN hp[r].files
                    ELSE [hp[r].files EXCEPT ![k] = ObjectAssign(@, updates)]
         IN [hp EXCEPT ![r] = [@ EXCEPT !.files = fs1,
                                        !.completedFiles = CountStatus(fs1, "completed"),
                                        !.failedFiles = CountStatus(fs1, "failed")]]

\* getJobStatus: the job object of the store, None when absent
GetJobStatus(jobId) == IF store[jobId] = 0 THEN None ELSE Some(job[store[jobId]])

\* what getJobStatus returns, as the reference it is: jobs.get(jobId) is the
\* object of the store itself (0 for null), read through the heap when used
GetJobStatusRef(jobId) == store[jobId]

\* ------------------------------------------------------------------- disk
EmptyDir ==
    [exists |-> FALSE, uploads |-> FALSE, dirs |-> {}, manifests |-> {}, zip |-> FALSE]

\* the start of transcodeFile as it would be if the manifest were written
\* before the encoders run
MkPackageDirsWithManifest(d, folder) ==
    [d EXCEPT !.exists = TRUE, !.dirs = @ \cup {folder}, !.manifests = @ \cup {folder}]

\* the mkdirSync loop of transcodeFile ({recursive: true} creates the parents)
MkPackageDirs(d, folder) == [d EXCEPT !.exists = TRUE, !.dirs = @ \cup {folder}]

\* fs.writeFileSync(path.join(hlsDir, 'master.m3u8'), ...)
WriteManifest(d, folder) == [d EXCEPT !.manifests = @ \cup {folder}]

\* the readdirSync loop of createZipArchive: the items passed to archive.directory
ArchiveItems(d) == { item \in d.dirs : item # ReservedDir }

\* fs.rmSync(jobDir, {recursive: true, force: true}) when the directory exists
RemoveJobDir(d) == IF d.exists THEN EmptyDir ELSE d

\* A request of the synchronous route before it arrives.  pc: idle, uploading,
\* encoding, responded; vi, totalSegments, inputOk as for a pipeline; outputs: the files
\* its encoders left in the package directory, as paths below that directory;
\* response: the HTTP response, None until sent; timer: the setTimeout of
\* the cleanup is pending; segs (history): the segments each encoder wrote.
IdleRequest ==
    [pc |-> "idle", jobId |-> 0, file |-> << >>, vi |-> 0, totalSegments |-> 0,
     inputOk |-> FALSE, outputs |-> {}, response |-> None, timer |-> FALSE,
     segs |-> << >>]

SyncIdle == [r \in SyncReqs |-> IdleRequest]

TypeOK ==
    /\ store \in [JobIds -> 0..MaxSubmits]
    /\ DOMAIN job \subseteq Pipes
    /\ pc \in [Pipes -> {"idle", "encoding", "archiving", "done"}]
    /\ crash \in {"up", "doomed", "down"}
    /\ now \in 0..(MaxTime * MsPerMinute)
    /\ DOMAIN sync = SyncReqs
    /\ \A r \in SyncReqs : sync[r].pc \in {"idle", "uploading", "encoding", "responded"}

Init ==
    /\ store = [id \in JobIds |-> 0]
    /\ job = << >>
    /\ pc = [p \in Pipes |-> "idle"]
    /\ files = [p \in Pipes |-> << >>]
    /\ fi = [p \in Pipes |-> 0]
    /\ vi = [p \in Pipes |-> 0]
    /\ totalSegments = [p \in Pipes |-> 0]
    /\ zipItems = [p \in Pipes |-> {}]
    /\ disk = [id \in JobIds |-> EmptyDir]
    /\ now = 0
    /\ crash = "up"
    /\ inputOk = [p \in Pipes |-> FALSE]
    /\ results = [p \in Pipes |-> << >>]
    /\ zipResult = [p \in Pipes |-> "none"]
    /\ deleted = [p \in Pipes |-> "no"]
    /\ lateStarts = [p \in Pipes |-> FALSE]
    /\ sync = SyncIdle

\* --------------------------------------------------- the loop of transcode
\* the test as it would be with an off-by-one, and with >= for >
ShouldArchiveOffByOne(fs) == CountStatus(fs, "completed") > 1
ShouldArchiveAlways(fs) == CountStatus(fs, "completed") >= 0

\* successfulFiles.length > 0 (lines 262-264)
ShouldArchive(fs) == CountStatus(fs, "completed") > 0

\* the final status as it would be if failed files were not looked at
FinalStatusIgnoresFailures(j) == "completed"

\* job.failedFiles > 0 ? 'completed_with_errors' : 'completed' (line 269)
FinalStatus(j) == IF j.failedFiles > 0 THEN "completed_with_errors" ELSE "completed"

\* the outer catch as it would be if it only recorded the message
FailJobKeepsStatus(j, msg, t) == [j EXCEPT !.error = Some(msg), !.completedAt = Some(t)]

\* the outer catch as it would be if it dropped the message
FailJobWithoutMessage(j, msg, t) == [j EXCEPT !.status = "failed", !.completedAt = Some(t)]

\* the outer catch of transcode (lines 279-284)
FailJob(j, msg, t) ==
    [j EXCEPT !.status = "failed", !.error = Some(msg), !.completedAt = Some(t)]

\* the branch of transcode for a job without a completed file (lines 270-275)
FailAllFiles(j, t) ==
    [j EXCEPT !.status = "failed", !.error = Some("All files failed to transcode"),
              !.completedAt = Some(t)]

\* the success branch as it would be without the assignment of job.zipPath
CompleteJobWithoutPath(j, t) == [j EXCEPT !.status = FinalStatus(j), !.completedAt = Some(t)]

\* the success branch of transcode once the archive is written (lines 268-275)
CompleteJob(j, t) ==
    [j EXCEPT !.zipPath = Some(j.jobId), !.status = FinalStatus(j),
              !.completedAt = Some(t)]

\* The tail of transcode once the file loop is over (lines 262-284), on heap hp
\* and job directory d.
FinishJob(p, id, hp, d) ==
    IF ShouldArchive(hp[p].files)
    THEN IF d.exists
         THEN \* createZipArchive runs up to archive.finalize(); transcode awaits
              /\ job' = hp
              /\ pc' = [pc EXCEPT ![p] = "archiving"]
              /\ zipItems' = [zipItems EXCEPT ![p] = {ArchiveItems(d)}]
              /\ disk' = [disk EXCEPT ![id] = [d EXCEPT !.zip = TRUE]]
              /\ crash' = crash
              /\ zipResult' = zipResult
              /\ lateStarts' = [lateStarts EXCEPT ![p] = @ \/ deleted[p] # "no"]
         ELSE \* readdirSync(outputDir) throws: the promise rejects, the outer
              \* catch fails the job; the output stream's open error has no listener
              /\ job' = [hp EXCEPT ![p] = FailJob(@, "ENOENT", now)]
              /\ pc' = [pc EXCEPT ![p] = "done"]
              /\ zipItems' = zipItems
              /\ disk' = [disk EXCEPT ![id] = d]
              /\ crash' = "doomed"
              /\ zipResult' = [zipResult EXCEPT ![p] = "ENOENT"]
              /\ lateStarts' = [lateStarts EXCEPT ![p] = @ \/ deleted[p] # "no"]
    ELSE /\ job' = [hp EXCEPT ![p] = FailAllFiles(@, now)]
         /\ pc' = [pc EXCEPT ![p] = "done"]
         /\ zipItems' = zipItems
         /\ disk' = [disk EXCEPT ![id] = d]
         /\ crash' = crash
         /\ zipResult' = zipResult
         /\ lateStarts' = lateStarts

\* the loop as it would be if it stopped one file early
LoopFromStopsEarly(p, id, fl, st, hp, d, i) ==
    IF i < Len(fl)
    THEN /\ job' = UpdateFileStatus(st, hp, id, fl[i], [status |-> "processing"])
         /\ disk' = [disk EXCEPT ![id] = MkPackageDirs(d, Basename(fl[i]))]
         /\ pc' = [pc EXCEPT ![p] = "encoding"]
         /\ fi' = [fi EXCEPT ![p] = i]
         /\ vi' = [vi EXCEPT ![p] = 1]
         /\ totalSegments' = [totalSegments EXCEPT ![p] = 0]
         /\ inputOk' = [inputOk EXCEPT ![p] = d.uploads]
         /\ zipItems' = zipItems
         /\ crash' = crash
         /\ zipResult' = zipResult
         /\ lateStarts' = [lateStarts EXCEPT ![p] = @ \/ deleted[p] # "no"]
    ELSE /\ FinishJob(p, id, hp, d)
         /\ fi' = fi
         /\ inputOk' = [inputOk EXCEPT ![p] = FALSE]
         /\ vi' = [vi EXCEPT ![p] = 0]
         /\ totalSegments' = [totalSegments EXCEPT ![p] = 0]

\* The for loop of transcode arriving at its i-th file (lines 241-245): the
\* entry is marked processing, transcodeFile creates the variant directories
\* and spawns the encoder of the first variant; past the last file, the tail.
LoopFrom(p, id, fl, st, hp, d, i) ==
    IF i <= Len(fl)
    THEN /\ job' = UpdateFileStatus(st, hp, id, fl[i], [status |-> "processing"])
         /\ disk' = [disk EXCEPT ![id] = MkPackageDirs(d, Basename(fl[i]))]
         /\ pc' = [pc EXCEPT ![p] = "encoding"]
         /\ fi' = [fi EXCEPT ![p] = i]
         /\ vi' = [vi EXCEPT ![p] = 1]
         /\ totalSegments' = [totalSegments EXCEPT ![p] = 0]
         /\ inputOk' = [inputOk EXCEPT ![p] = d.uploads]
         /\ zipItems' = zipItems
         /\ crash' = crash
         /\ zipResult' = zipResult
         /\ lateStarts' = [lateStarts EXCEPT ![p] = @ \/ deleted[p] # "no"]
    ELSE /\ FinishJob(p, id, hp, d)
         /\ fi' = fi
         /\ inputOk' = [inputOk EXCEPT ![p] = FALSE]
         /\ vi' = [vi EXCEPT ![p] = 0]
         /\ totalSegments' = [totalSegments EXCEPT ![p] = 0]

\* ---------------------------------------------------------------- actions
\* An uncaught exception ends the Node process: what it held in memory is gone,
\* the files on disk stay.
ProcessExits ==
    /\ crash' = "down"
    /\ store' = [id \in JobIds |-> 0]
    /\ job' = << >>
    /\ pc' = [p \in Pipes |-> "idle"]
    /\ files' = [p \in Pipes |-> << >>]
    /\ fi' = [p \in Pipes |-> 0]
    /\ vi' = [p \in Pipes |-> 0]
    /\ totalSegments' = [p \in Pipes |-> 0]
    /\ zipItems' = [p \in Pipes |-> {}]
    /\ inputOk' = [p \in Pipes |-> FALSE]
    /\ results' = [p \in Pipes |-> << >>]
    /\ zipResult' = [p \in Pipes |-> "none"]
    /\ deleted' = [p \in Pipes |-> "no"]
    /\ lateStarts' = [p \in Pipes |-> FALSE]
    /\ UNCHANGED << disk, now >>

\* the job-id middleware: `job-${Date.now()}-${random}`, an id no job had before
FreshId(id) == id = Cardinality(DOMAIN job) + 1

\* POST /transcode: the upload stored the files under the job directory, then
\* transcode(jobId, files) runs up to its first await.
Submit(id, fl) ==
    LET p == Cardinality(DOMAIN job) + 1
        st == [store EXCEPT ![id] = p]
        hp == job @@ (p :> NewJob(id, fl, now))
        d == [disk[id] EXCEPT !.exists = TRUE, !.uploads = TRUE]
    IN /\ crash # "down"
       /\ p \in Pipes
       /\ store' = st
       /\ files' = [files EXCEPT ![p] = fl]
       /\ LoopFrom(p, id, fl, st, hp, d, 1)
       /\ UNCHANGED << now, results, deleted >>

\* The encoder of variant vi[p] closes with code 0 and its output directory is
\* there: the segments are counted; then the next variant is spawned, or the
\* manifest is written, the entry marked completed and the loop moves on.
VariantSucceeds(p, n) ==
    LET id == job[p].jobId
        fl == files[p]
        folder == Basename(fl[fi[p]])
        total == totalSegments[p] + n
    IN /\ crash # "down"
       /\ pc[p] = "encoding"
       /\ inputOk[p]
       /\ disk[id].exists /\ folder \in disk[id].dirs
       /\ IF vi[p] < Len(BITRATE_LADDER)
          THEN /\ vi' = [vi EXCEPT ![p] = @ + 1]
               /\ totalSegments' = [totalSegments EXCEPT ![p] = total]
               /\ inputOk' = [inputOk EXCEPT ![p] = disk[id].uploads]
               /\ lateStarts' = [lateStarts EXCEPT ![p] = @ \/ deleted[p] # "no"]
               /\ UNCHANGED << store, job, pc, files, fi, zipItems, disk, crash,
                               results, zipResult >>
          ELSE /\ LoopFrom(p, id, fl, store,
                           UpdateFileStatus(store, job, id, fl[fi[p]],
                               [status |-> "completed", hlsFolder |-> Some(folder),
                                segmentCount |-> total]),
                           WriteManifest(disk[id], folder), fi[p] + 1)
               /\ results' = [results EXCEPT ![p] = Append(@, "ok")]
               /\ UNCHANGED << store, files >>
       /\ UNCHANGED << now, deleted >>

\* The encoder closes with code 0 but its output directory was removed in the
\* meantime: readdirSync throws inside the close listener, which nothing catches.
VariantCloseThrows(p) ==
    LET id == job[p].jobId
        folder == Basename(files[p][fi[p]])
    IN /\ crash # "down"
       /\ pc[p] = "encoding"
       /\ inputOk[p]
       /\ ~(disk[id].exists /\ folder \in disk[id].dirs)
       /\ ProcessExits

\* the failure of a build as it would be if it ended the loop of transcode
VariantFailsAborts(p, msg) ==
    LET id == job[p].jobId
        fl == files[p]
    IN /\ crash # "down"
       /\ pc[p] = "encoding"
       /\ LoopFrom(p, id, fl, store,
                   UpdateFileStatus(store, job, id, fl[fi[p]],
                       [status |-> "failed", error |-> Some(msg)]),
                   disk[id], Len(fl) + 1)
       /\ results' = [results EXCEPT ![p] = Append(@, "fail")]
       /\ UNCHANGED << store, files, now, deleted >>

\* The encoder closes with a code other than 0, or cannot be started: the
\* promise rejects, transcodeFile throws, the entry is marked failed and the
\* loop moves on.
VariantFails(p, msg) ==
    LET id == job[p].jobId
        fl == files[p]
    IN /\ crash # "down"
       /\ pc[p] = "encoding"
       /\ LoopFrom(p, id, fl, store,
                   UpdateFileStatus(store, job, id, fl[fi[p]],
                       [status |-> "failed", error |-> Some(msg)]),
                   disk[id], fi[p] + 1)
       /\ results' = [results EXCEPT ![p] = Append(@, "fail")]
       /\ UNCHANGED << store, files, now, deleted >>

\* The output stream closes: createZipArchive resolves with the path.
ArchiveCloses(p) ==
    /\ crash # "down"
    /\ pc[p] = "archiving"
    /\ job' = [job EXCEPT ![p] = CompleteJob(@, now)]
    /\ pc' = [pc EXCEPT ![p] = "done"]
    /\ zipResult' = [zipResult EXCEPT ![p] = "closed"]
    /\ UNCHANGED << store, files, fi, vi, totalSegments, zipItems, disk, now,
                    crash, inputOk, results, deleted, lateStarts >>

\* The archiver reports an error: createZipArchive rejects, the outer catch runs.
ArchiveFails(p) ==
    /\ crash # "down"
    /\ pc[p] = "archiving"
    /\ job' = [job EXCEPT ![p] = FailJob(@, "ArchiveError", now)]
    /\ pc' = [pc EXCEPT ![p] = "done"]
    /\ zipResult' = [zipResult EXCEPT ![p] = "ArchiveError"]
    /\ UNCHANGED << store, files, fi, vi, totalSegments, zipItems, disk, now,
                    crash, inputOk, results, deleted, lateStarts >>

\* The output file stream emits 'error' (disk full, directory lost while writing).
\* createZipArchive listens for 'close' of the output and for 'error' of the archive
\* only; pipe() re-emits an error of a destination nobody listens to, so the error is
\* uncaught: the promise never settles and the process ends.
ArchiveOutputErrors(p) ==
    /\ crash # "down"
    /\ pc[p] = "archiving"
    /\ ProcessExits

Running(p) == pc[p] \in {"encoding", "archiving"}

\* the jobs a call of cleanupJob on each id of ids deletes
CleanupAll(ids, by) ==
    /\ disk' = [id \in JobIds |-> IF id \in ids THEN RemoveJobDir(disk[id]) ELSE disk[id]]
    /\ store' = [id \in JobIds |-> IF id \in ids THEN 0 ELSE store[id]]
    /\ deleted' = [p \in Pipes |->
                     IF Running(p) /\ (\E id \in ids : store[id] = p) THEN by
                     ELSE deleted[p]]

\* DELETE /job/:jobId
CleanupJob(id) ==
    /\ crash # "down"
    /\ CleanupAll({id}, "cleanupJob")
    /\ UNCHANGED << job, pc, files, fi, vi, totalSegments, zipItems, now, crash,
                    inputOk, results, zipResult, lateStarts >>

\* the expired jobs as they would be with >= for >
ExpiredInclusive(maxAgeMinutes) ==
    { id \in JobIds : /\ store[id] # 0
                      /\ now - job[store[id]].startedAt >= maxAgeMinutes * MsPerMinute }

\* the jobs of the store older than maxAgeMinutes
Expired(maxAgeMinutes) ==
    { id \in JobIds : /\ store[id] # 0
                      /\ now - job[store[id]].startedAt > maxAgeMinutes * MsPerMinute }

\* one tick of the setInterval sweep
CleanupOldJobs(maxAgeMinutes) ==
    /\ crash # "down"
    /\ CleanupAll(Expired(maxAgeMinutes), "sweep")
    /\ UNCHANGED << job, pc, files, fi, vi, totalSegments, zipItems, now, crash,
                    inputOk, results, zipResult, lateStarts >>

\* the unhandled error event of the output stream ends the process
UnhandledError ==
    /\ crash = "doomed"
    /\ ProcessExits

Tick ==
    /\ crash # "down"
    /\ now < MaxTime * MsPerMinute
    /\ now' = now + MsPerMinute
    /\ UNCHANGED << store, job, pc, files, fi, vi, totalSegments, zipItems, disk,
                    crash, inputOk, results, zipResult, deleted, lateStarts >>

EncodeErrors == {"EncodeFailure", "EncodeLaunchFailure"}

\* ------------------------------------------------- the synchronous route
\* segment_%03d.ts, the names the encoder gives its segments
SegmentNames == << "segment_000.ts", "segment_001.ts", "segment_002.ts" >>

\* the encoder as it would be if it named its playlist after the variant
EncoderOutputsOwnName(variantName, n) ==
    { << variantName, variantName >> }
        \cup { << variantName, SegmentNames[k] >> : k \in 1..n }

\* what an encoder that exits with code 0 leaves in its variant directory
EncoderOutputs(variantName, n) ==
    { << variantName, "index.m3u8" >> }
        \cup { << variantName, SegmentNames[k] >> : k \in 1..n }

\* The lines of the text generateMasterPlaylist returns.  A line is a tag
\* line (#EXTM3U, #EXT-X-VERSION, #EXT-X-STREAM-INF with its BANDWIDTH), a
\* comment, an empty line, or a URI line with its path split at "/".
ManifestLine(kind, text, bandwidth, path) ==
    [kind |-> kind, text |-> text, bandwidth |-> bandwidth, path |-> path]

GenerateMasterPlaylist ==
    << ManifestLine("tag", "#EXTM3U", 0, << >>),
       ManifestLine("tag", "#EXT-X-VERSION:3", 0, << >>),
       ManifestLine("empty", "", 0, << >>),
       ManifestLine("comment", "# 32 kbps LOW", 0, << >>),
       ManifestLine("stream-inf", "CODECS=mp4a.40.2", 48000, << >>),
       ManifestLine("uri", "", 0, << "low", "index.m3u8" >>),
       ManifestLine("empty", "", 0, << >>),
       ManifestLine("comment", "# 64 kbps MEDIUM", 0, << >>),
       ManifestLine("stream-inf", "CODECS=mp4a.40.2", 96000, << >>),
       ManifestLine("uri", "", 0, << "medium", "index.m3u8" >>),
       ManifestLine("empty", "", 0, << >>),
       ManifestLine("comment", "# 96 kbps HIGH", 0, << >>),
       ManifestLine("stream-inf", "CODECS=mp4a.40.2", 144000, << >>),
       ManifestLine("uri", "", 0, << "high", "index.m3u8" >>),
       ManifestLine("empty", "", 0, << >>),
       ManifestLine("comment", "# 128 kbps PREMIUM", 0, << >>),
       ManifestLine("stream-inf", "CODECS=mp4a.40.2", 192000, << >>),
       ManifestLine("uri", "", 0, << "premium", "index.m3u8" >>) >>

\* the files below the package directory of a request: those of the encoders
\* and the top-level manifest once written
PackageFiles(d, folder, outputs) ==
    outputs \cup (IF folder \in d.manifests THEN { << "master.m3u8" >> } ELSE {})

\* the directories below the package directory (the mkdirSync loop)
PackageDirs == { << BITRATE_LADDER[v].name >> : v \in 1..Len(BITRATE_LADDER) }

\* readDir of collectHLSFiles: the files of dir, and those of its directories
RECURSIVE ReadDir(_, _, _)
ReadDir(fileSet, dirSet, dir) ==
    LET items == { e \in fileSet \cup dirSet :
                     Len(e) = Len(dir) + 1 /\ SubSeq(e, 1, Len(dir)) = dir }
    IN (items \cap fileSet)
         \cup UNION { ReadDir(fileSet, dirSet, e) : e \in items \cap dirSet }

\* collectHLSFiles as it would be without the descent into directories
CollectHLSFilesTopLevel(fileSet, dirSet) == { e \in fileSet : Len(e) = 1 }

\* collectHLSFiles(hlsDir): the relative paths of all files below hlsDir
CollectHLSFiles(fileSet, dirSet) == ReadDir(fileSet, dirSet, << >>)

\* everything but disk and sync
jobVars == << store, job, pc, files, fi, vi, totalSegments, zipItems, now, crash,
              inputOk, results, zipResult, deleted, lateStarts >>

\* POST /api/transcode-sync with the file stored under the directory of the
\* request's job id: transcodeSync runs transcodeFile up to its first await.
\* The handler is taken from the point where it holds an id (SyncId(r)); how a
\* request of this route comes by req.jobId is modelled by SyncRequestArrives
\* and SyncDestination.
SyncSubmit(r, fileName) ==
    LET id == SyncId(r)
        d == [disk[id] EXCEPT !.exists = TRUE, !.uploads = TRUE]
    IN /\ crash # "down"
       /\ sync[r].pc = "idle"
       /\ disk' = [disk EXCEPT ![id] = MkPackageDirs(d, Basename(fileName))]
       /\ sync' = [sync EXCEPT ![r] =
                     [IdleRequest EXCEPT !.pc = "encoding", !.jobId = id,
                                         !.file = fileName, !.vi = 1,
                                         !.inputOk = d.uploads]]
       /\ UNCHANGED jobVars

\* An encoder of the request closes with code 0, its output directory there.
\* After the last variant the manifest is written, collectHLSFiles lists the
\* package, the route reads the files, schedules the cleanup and responds.
SyncVariantSucceeds(r, n) ==
    LET s == sync[r]
        id == s.jobId
        folder == Basename(s.file)
        outs == s.outputs \cup EncoderOutputs(BITRATE_LADDER[s.vi].name, n)
        total == s.totalSegments + n
        d == WriteManifest(disk[id], folder)
    IN /\ crash # "down"
       /\ s.pc = "encoding"
       /\ s.inputOk
       /\ disk[id].exists /\ folder \in disk[id].dirs
       /\ IF s.vi < Len(BITRATE_LADDER)
          THEN /\ sync' = [sync EXCEPT ![r] =
                             [s EXCEPT !.vi = @ + 1, !.totalSegments = total,
                                       !.outputs = outs, !.segs = Append(@, n),
                                       !.inputOk = disk[id].uploads]]
               /\ disk' = disk
          ELSE /\ sync' = [sync EXCEPT ![r] =
                             [s EXCEPT !.pc = "responded", !.vi = 0,
                                       !.totalSegments = total,
                                       !.outputs = outs, !.segs = Append(@, n),
                                       !.inputOk = FALSE, !.timer = TRUE,
                                       !.response =
                                          Some([code |-> 200, success |-> TRUE,
                                                hlsFolder |-> Some(folder),
                                                segmentCount |-> total,
                                                files |-> CollectHLSFiles(
                                                    PackageFiles(d, folder, outs),
                                                    PackageDirs)])]]
               /\ disk' = [disk EXCEPT ![id] = d]
       /\ UNCHANGED jobVars

\* The encoder closes with code 0 but the output directory is gone: readdirSync
\* throws inside the close listener.
SyncVariantCloseThrows(r) ==
    LET s == sync[r]
    IN /\ crash # "down"
       /\ s.pc = "encoding"
       /\ s.inputOk
       /\ ~(disk[s.jobId].exists /\ Basename(s.file) \in disk[s.jobId].dirs)
       /\ ProcessExits
       /\ sync' = SyncIdle

\* The encoder fails: transcodeFile throws, transcodeSync returns the failure
\* and the route answers 500.
SyncVariantFails(r, msg) ==
    LET s == sync[r]
    IN /\ crash # "down"
       /\ s.pc = "encoding"
       /\ sync' = [sync EXCEPT ![r] =
                     [s EXCEPT !.pc = "responded", !.vi = 0, !.inputOk = FALSE,
                               !.response =
                                  Some([code |-> 500, success |-> FALSE,
                                        hlsFolder |-> None, segmentCount |-> 0,
                                        files |-> {}])]]
       /\ UNCHANGED << jobVars, disk >>

\* the timer set by the route fires: cleanupJob(jobId)
SyncCleanupTimer(r) ==
    /\ crash # "down"
    /\ sync[r].timer
    /\ CleanupAll({sync[r].jobId}, "cleanupJob")
    /\ sync' = [sync EXCEPT ![r].timer = FALSE]
    /\ UNCHANGED << job, pc, files, fi, vi, totalSegments, zipItems, now, crash,
                    inputOk, results, zipResult, lateStarts >>

\* ---------------------------------------------------------- specifications
\* the job routes, the sweep and the clock
Next ==
    \/ \E id \in JobIds, fl \in FileLists :
          FreshId(id) /\ Submit(id, fl) /\ UNCHANGED sync
    \/ \E p \in DOMAIN job, n \in 1..MaxSegments :
          VariantSucceeds(p, n) /\ UNCHANGED sync
    \/ \E p \in DOMAIN job : VariantCloseThrows(p) /\ sync' = SyncIdle
    \/ \E p \in DOMAIN job, msg \in EncodeErrors :
          VariantFails(p, msg) /\ UNCHANGED sync
    \/ \E p \in DOMAIN job : ArchiveCloses(p) /\ UNCHANGED sync
    \/ \E p \in DOMAIN job : ArchiveFails(p) /\ UNCHANGED sync
    \/ \E p \in DOMAIN job : ArchiveOutputErrors(p) /\ sync' = SyncIdle
    \/ \E id \in JobIds : CleanupJob(id) /\ UNCHANGED sync
    \/ \E t \in 0..MaxThreshold : CleanupOldJobs(t) /\ UNCHANGED sync
    \/ UnhandledError /\ sync' = SyncIdle
    \/ Tick /\ UNCHANGED sync

Spec == Init /\ [][Next]_vars

\* the synchronous route beside the job routes
NextSync ==
    \/ \E r \in SyncReqs, fileName \in FileNames : SyncSubmit(r, fileName)
    \/ \E r \in SyncReqs, n \in 1..MaxSegments : SyncVariantSucceeds(r, n)
    \/ \E r \in SyncReqs : SyncVariantCloseThrows(r)
    \/ \E r \in SyncReqs, msg \in EncodeErrors : SyncVariantFails(r, msg)
    \/ \E r \in SyncReqs : SyncCleanupTimer(r)
    \/ \E id \in JobIds, fl \in FileLists :
          /\ Cardinality(DOMAIN job) < MaxSubmitsBesideSync
          /\ FreshId(id) /\ Submit(id, fl) /\ UNCHANGED sync
    \/ \E p \in DOMAIN job, n \in 1..MaxSegments :
          VariantSucceeds(p, n) /\ UNCHANGED sync
    \/ \E p \in DOMAIN job : VariantCloseThrows(p) /\ sync' = SyncIdle
    \/ \E p \in DOMAIN job, msg \in EncodeErrors :
          VariantFails(p, msg) /\ UNCHANGED sync
    \/ \E p \in DOMAIN job : ArchiveCloses(p) /\ UNCHANGED sync
    \/ \E p \in DOMAIN job : ArchiveFails(p) /\ UNCHANGED sync
    \/ \E p \in DOMAIN job : ArchiveOutputErrors(p) /\ sync' = SyncIdle
    \/ \E id \in JobIds : CleanupJob(id) /\ UNCHANGED sync
    \/ \E t \in 0..MaxThreshold : CleanupOldJobs(t) /\ UNCHANGED sync
    \/ UnhandledError /\ sync' = SyncIdle
    \/ Tick /\ UNCHANGED sync

SpecSync == Init /\ [][NextSync]_vars

\* transcode called with any job id, also one that a job already has (initJob
\* takes the id it is given); the clock stands still
NextAnyId ==
    \/ \E id \in 1..MaxSubmits, fl \in FileLists : Submit(id, fl) /\ UNCHANGED sync
    \/ \E p \in DOMAIN job, n \in 1..MaxSegments :
          VariantSucceeds(p, n) /\ UNCHANGED sync
    \/ \E p \in DOMAIN job : VariantCloseThrows(p) /\ sync' = SyncIdle
    \/ \E p \in DOMAIN job, msg \in EncodeErrors :
          VariantFails(p, msg) /\ UNCHANGED sync
    \/ \E p \in DOMAIN job : ArchiveCloses(p) /\ UNCHANGED sync
    \/ \E p \in DOMAIN job : ArchiveFails(p) /\ UNCHANGED sync
    \/ \E p \in DOMAIN job : ArchiveOutputErrors(p) /\ sync' = SyncIdle
    \/ \E id \in JobIds : CleanupJob(id) /\ UNCHANGED sync
    \/ UnhandledError /\ sync' = SyncIdle

SpecAnyId == Init /\ [][NextAnyId]_vars

\* ------------------------------------------------------- the upload layer
UpperCase == << "A", "B", "C", "D", "E", "F", "G", "H", "I", "J", "K", "L", "M",
               "N", "O", "P", "Q", "R", "S", "T", "U", "V", "W", "X", "Y", "Z" >>
LowerCase == << "a", "b", "c", "d", "e", "f", "g", "h", "i", "j", "k", "l", "m",
               "n", "o", "p", "q", "r", "s", "t", "u", "v", "w", "x", "y", "z" >>

\* String.prototype.toLowerCase
ToLowerCase(str) ==
    [k \in 1..Len(str) |->
        IF \E i \in 1..Len(UpperCase) : UpperCase[i] = str[k]
        THEN LowerCase[CHOOSE i \in 1..Len(UpperCase) : UpperCase[i] = str[k]]
        ELSE str[k]]

\* the fileFilter of multer: what the upload layer accepts
FileFilter(originalname, mimetype) ==
    mimetype = "audio/mpeg" \/ HasSuffix(ToLowerCase(originalname), Mp3Ext)

\* names and declared types of the files a client sends
UploadNames ==
    { <<"a">> \o Mp3Ext, << "a", ".", "M", "P", "3" >>, << "a", ".", "w", "a", "v" >> }
MimeTypes == { "audio/mpeg", "audio/wav" }

\* POST /transcode with one file: the upload layer filters it, then as Submit
Upload(id, originalname, mimetype) ==
    /\ FileFilter(originalname, mimetype)
    /\ FreshId(id)
    /\ Submit(id, << originalname >>)

NextUpload ==
    \/ \E id \in JobIds, name \in UploadNames, mimetype \in MimeTypes :
          Upload(id, name, mimetype) /\ UNCHANGED sync
    \/ \E p \in DOMAIN job, n \in 1..MaxSegments :
          VariantSucceeds(p, n) /\ UNCHANGED sync
    \/ \E p \in DOMAIN job, msg \in EncodeErrors :
          VariantFails(p, msg) /\ UNCHANGED sync
    \/ \E p \in DOMAIN job : ArchiveCloses(p) /\ UNCHANGED sync
    \/ \E p \in DOMAIN job : ArchiveFails(p) /\ UNCHANGED sync

SpecUpload == Init /\ [][NextUpload]_vars

\* ------------------------------------------- the middlewares and the upload
\* the paths of the two upload routes, as their segments
TranscodePath == << "transcode" >>
TranscodeSyncPath == << "api", "transcode-sync" >>

\* app.use(mountPath, fn): fn runs for the requests whose path begins with the
\* segments of mountPath
MountedAt(mountPath, requestPath) ==
    /\ Len(mountPath) <= Len(requestPath)
    /\ SubSeq(requestPath, 1, Len(mountPath)) = mountPath

\* req.jobId when multer stores the files of a request: the id generated by the
\* middleware mounted at /transcode, undefined (0) where that did not run
ReqJobId(requestPath, id) ==
    IF MountedAt(TranscodePath, requestPath) THEN id ELSE 0

\* what can become of an exception thrown by the destination function of the
\* storage: passed on as the error of the request, or uncaught
ThrowOutcomes == { "answered", "uncaught" }

\* POST /transcode: the middleware gives the request its id, multer stores the
\* files under the directory of that id, the route starts the job and responds
PostTranscode(id, fl) ==
    /\ FreshId(id)
    /\ ReqJobId(TranscodePath, id) # 0
    /\ Submit(ReqJobId(TranscodePath, id), fl)

\* POST /api/transcode-sync has passed the CORS and the auth middleware and
\* multer begins to read the body of the request
SyncRequestArrives(r, fileName) ==
    /\ crash # "down"
    /\ sync[r].pc = "idle"
    /\ sync' = [sync EXCEPT ![r] =
                  [IdleRequest EXCEPT !.pc = "uploading", !.file = fileName,
                                      !.jobId = ReqJobId(TranscodeSyncPath, SyncId(r))]]
    /\ UNCHANGED << jobVars, disk >>

\* multer calls destination for the file of the request. path.join(TEMP_DIR,
\* req.jobId) throws a TypeError for an undefined id: the request is answered
\* with the error or the exception ends the process. With an id the directory
\* is made, the file stored and the route calls transcodeSync.
SyncDestination(r, outcome) ==
    LET s == sync[r]
        d == [disk[s.jobId] EXCEPT !.exists = TRUE, !.uploads = TRUE]
    IN /\ crash # "down"
       /\ s.pc = "uploading"
       /\ IF s.jobId = 0
          THEN IF outcome = "answered"
               THEN /\ sync' = [sync EXCEPT ![r] =
                                  [s EXCEPT !.pc = "responded",
                                            !.response =
                                               Some([code |-> 500, success |-> FALSE,
                                                     hlsFolder |-> None,
                                                     segmentCount |-> 0,
                                                     files |-> {}])]]
                    /\ UNCHANGED << jobVars, disk >>
               ELSE /\ ProcessExits
                    /\ sync' = SyncIdle
          ELSE /\ disk' = [disk EXCEPT ![s.jobId] = MkPackageDirs(d, Basename(s.file))]
               /\ sync' = [sync EXCEPT ![r] =
                             [s EXCEPT !.pc = "encoding", !.vi = 1,
                                       !.inputOk = d.uploads]]
               /\ UNCHANGED jobVars

\* both upload routes behind their middlewares, and the job pipelines
NextRoutes ==
    \/ \E id \in JobIds, fl \in FileLists : PostTranscode(id, fl) /\ UNCHANGED sync
    \/ \E r \in SyncReqs, fileName \in FileNames : SyncRequestArrives(r, fileName)
    \/ \E r \in SyncReqs, outcome \in ThrowOutcomes : SyncDestination(r, outcome)
    \/ \E p \in DOMAIN job, n \in 1..MaxSegments :
          VariantSucceeds(p, n) /\ UNCHANGED sync
    \/ \E p \in DOMAIN job, msg \in EncodeErrors :
          VariantFails(p, msg) /\ UNCHANGED sync
    \/ \E p \in DOMAIN job : ArchiveCloses(p) /\ UNCHANGED sync
    \/ \E p \in DOMAIN job : ArchiveFails(p) /\ UNCHANGED sync
    \/ \E p \in DOMAIN job : ArchiveOutputErrors(p) /\ sync' = SyncIdle

SpecRoutes == Init /\ [][NextRoutes]_vars

\* ------------------------------------------------------------------ claims
StoredJobs == { id \in JobIds : store[id] # 0 }
JobOf(id) == job[store[id]]
DistinctNames(fl) == \A i, k \in 1..Len(fl) : fl[i] = fl[k] => i = k
BuiltAll(p) == Len(results[p]) = Len(files[p])
AllOk(p) == BuiltAll(p) /\ \A k \in 1..Len(results[p]) : results[p][k] = "ok"
AllFailed(p) == \A k \in 1..Len(results[p]) : results[p][k] = "fail"
OneFailed(p) ==
    /\ BuiltAll(p)
    /\ Cardinality({ k \in 1..Len(results[p]) : results[p][k] = "fail" }) = 1

\* C1: for every job in the store, completedFiles is the number of entries
\* whose status is completed and failedFiles the number whose status is
\* failed, so their sum never exceeds the number of files.
C1_CountsMatchEntries ==
    \A id \in StoredJobs :
        /\ JobOf(id).completedFiles = CountStatus(JobOf(id).files, "completed")
        /\ JobOf(id).failedFiles = CountStatus(JobOf(id).files, "failed")
        /\ JobOf(id).completedFiles + JobOf(id).failedFiles <= Len(JobOf(id).files)

\* two jobs are in the store at once, one with a completed and a failed file,
\* the other with a completed file and its second file being encoded
C1_Witness ==
    \E id1, id2 \in StoredJobs :
        /\ id1 # id2
        /\ JobOf(id1).completedFiles = 1 /\ JobOf(id1).failedFiles = 1
        /\ JobOf(id2).completedFiles = 1 /\ pc[store[id2]] = "encoding"

\* C2 as stated: a job of N >= 1 files whose encoder invocations all exit 0
\* and whose archive is written ends completed, with a zipPath,
\* completedFiles = N and failedFiles = 0.
C2_AllSucceed_AnyNames ==
    \A p \in DOMAIN job :
        (pc[p] = "done" /\ AllOk(p) /\ zipResult[p] = "closed")
        => /\ job[p].status = "completed"
           /\ job[p].zipPath # None
           /\ job[p].completedFiles = Len(files[p])
           /\ job[p].failedFiles = 0

\* C2, amended: the same for a job whose N files have pairwise distinct names.
C2_AllSucceed ==
    \A p \in DOMAIN job :
        (pc[p] = "done" /\ DistinctNames(files[p]) /\ AllOk(p) /\ zipResult[p] = "closed")
        => /\ job[p].status = "completed"
           /\ job[p].zipPath # None
           /\ job[p].completedFiles = Len(files[p])
           /\ job[p].failedFiles = 0

C2_Witness ==
    \E p \in DOMAIN job :
        /\ pc[p] = "done" /\ Len(files[p]) = 2 /\ DistinctNames(files[p])
        /\ AllOk(p) /\ zipResult[p] = "closed"

\* C3 as stated: a job of N >= 2 files in which exactly one package build
\* fails ends completed_with_errors with a zipPath, and the entry of the file
\* that failed is failed with an error message.
C3_OneFailure_AsStated ==
    \A p \in DOMAIN job :
        (pc[p] = "done" /\ Len(files[p]) >= 2 /\ OneFailed(p))
        => /\ job[p].status = "completed_with_errors"
           /\ job[p].zipPath # None
           /\ \A k \in 1..Len(files[p]) :
                results[p][k] = "fail"
                => job[p].files[k].status = "failed" /\ job[p].files[k].error # None

\* C3, amended: the same for files of pairwise distinct names when the archive
\* is then written successfully.
C3_OneFailure ==
    \A p \in DOMAIN job :
        (/\ pc[p] = "done" /\ Len(files[p]) >= 2 /\ OneFailed(p)
         /\ DistinctNames(files[p]) /\ zipResult[p] = "closed")
        => /\ job[p].status = "completed_with_errors"
           /\ job[p].zipPath # None
           /\ \A k \in 1..Len(files[p]) :
                results[p][k] = "fail"
                => job[p].files[k].status = "failed" /\ job[p].files[k].error # None

C3_Witness ==
    \E p \in DOMAIN job :
        /\ pc[p] = "done" /\ Len(files[p]) >= 2 /\ OneFailed(p)
        /\ DistinctNames(files[p]) /\ zipResult[p] = "closed"
        /\ results[p][1] = "fail"

\* C4: while every package build of a job has failed the archive assembler is
\* not invoked for it, and once all its builds have failed the job is failed
\* with a top-level error and no zipPath.
C4_AllFail ==
    \A p \in DOMAIN job :
        AllFailed(p)
        => /\ pc[p] # "archiving" /\ zipItems[p] = {} /\ zipResult[p] = "none"
           /\ ~disk[job[p].jobId].zip
           /\ (pc[p] = "done" /\ BuiltAll(p))
              => /\ job[p].status = "failed"
                 /\ job[p].error # None
                 /\ job[p].zipPath = None

C4_Witness ==
    \E p \in DOMAIN job :
        /\ pc[p] = "done" /\ Len(files[p]) = 2 /\ BuiltAll(p) /\ AllFailed(p)
        /\ store[job[p].jobId] = p

\* C5: when createZipArchive fails the job ends failed, its top-level error is
\* the message of that failure and zipPath is still null, also when every
\* file is completed.
C5_ArchiveFailure ==
    \A p \in DOMAIN job :
        (pc[p] = "done" /\ zipResult[p] \in {"ArchiveError", "ENOENT"})
        => /\ job[p].status = "failed"
           /\ job[p].error = Some(zipResult[p])
           /\ job[p].zipPath = None

C5_Witness ==
    \E p \in DOMAIN job :
        /\ pc[p] = "done" /\ zipResult[p] = "ArchiveError"
        /\ Len(files[p]) = 2
        /\ \A k \in 1..Len(files[p]) : job[p].files[k].status = "completed"

\* the package folders of the entries that are completed
CompletedFolders(j) ==
    { j.files[k].hlsFolder[1] : k \in { m \in 1..Len(j.files) : j.files[m].status = "completed" } }

\* C6: the folders placed in the archive are exactly the package folders of
\* the completed entries.
C6_ArchiveHoldsCompletedOnly ==
    \A p \in DOMAIN job :
        \A items \in zipItems[p] : items = CompletedFolders(job[p])

\* C7: once cleanupJob has deleted a job whose pipeline was running, the job is
\* not in the store and its directory does not exist, in every later state.
C7_DeletedStaysDeleted ==
    \A p \in DOMAIN job :
        deleted[p] = "cleanupJob"
        => /\ store[job[p].jobId] = 0
           /\ ~disk[job[p].jobId].exists

\* C8: after a running job was deleted, its pipeline begins no encoder
\* invocation and no archive.
C8_NoStartAfterDelete == \A p \in Pipes : ~lateStarts[p]

ProbeNames == FileNames \cup { <<"c">> \o Mp3Ext }
ProbeUpdates ==
    { [status |-> "processing"],
      [status |-> "completed", hlsFolder |-> Some(<<"c">>), segmentCount |-> 4],
      [status |-> "failed", error |-> Some("EncodeFailure")] }

\* C9: updateFileStatus changes nothing when the store has no job of that id,
\* and nothing either when the job has no entry of that name; a job deleted
\* under its running pipeline is never put back by the pipeline's updates.
C9_StaleUpdateIsNoOp ==
    /\ \A id \in JobIds, name \in ProbeNames, u \in ProbeUpdates :
          (store[id] = 0 \/ FindIndex(JobOf(id).files, name) = 0)
          => UpdateFileStatus(store, job, id, name, u) = job
    /\ \A p \in DOMAIN job : deleted[p] # "no" => store[job[p].jobId] = 0

\* a pipeline went on to its next file after its job was deleted (its update of
\* the finished file met no job), while another job, which has counted a
\* completed file, has no entry of some name
C9_Witness ==
    \E p, q \in DOMAIN job :
        /\ deleted[p] # "no" /\ lateStarts[p] /\ Len(results[p]) >= 1
        /\ store[job[q].jobId] = q /\ job[q].completedFiles = 1
        /\ \E name \in FileNames : FindIndex(job[q].files, name) = 0

AgeMs(id) == now - JobOf(id).startedAt

\* C10: a run of cleanupOldJobs(T) removes, with its directory, every job of
\* the store created more than T minutes ago, and leaves every other job, its
\* fields and its directory as they were; a job aged exactly T minutes stays.
C10_SweepRemovesExactlyExpired ==
    [][ \A t \in 0..MaxThreshold :
          CleanupOldJobs(t)
          => /\ job' = job
             /\ \A id \in JobIds :
                  IF id \in StoredJobs /\ AgeMs(id) > t * MsPerMinute
                  THEN store'[id] = 0 /\ ~disk'[id].exists
                  ELSE store'[id] = store[id] /\ disk'[id] = disk[id] ]_vars

\* a job was swept while processing, another, created at the time of the sweep
\* threshold, is still in the store
C10_Witness ==
    \E p, q \in DOMAIN job :
        /\ deleted[p] = "sweep" /\ job[p].status = "processing"
        /\ store[job[p].jobId] = 0 /\ ~disk[job[p].jobId].exists
        /\ job[p].startedAt < now
        /\ store[job[q].jobId] = q /\ job[q].startedAt = now

\* GET /download/:jobId: the status code of the response, and whether the
\* response carries the archive (zipPath is the archive under the job directory)
Download(jobId) ==
    LET status == GetJobStatus(jobId)
    IN IF status = None THEN [code |-> 404, archive |-> FALSE]
       ELSE IF status[1].status # "completed"
            THEN [code |-> 400, archive |-> FALSE]
       ELSE IF status[1].zipPath = None \/ ~disk[status[1].zipPath[1]].zip
            THEN [code |-> 404, archive |-> FALSE]
       ELSE [code |-> 200, archive |-> TRUE]

\* C11: a download request delivers the archive exactly when the job's status
\* is completed or completed_with_errors and the archive file exists; for a job
\* that is processing or failed the answer is a 4xx without the archive.
C11_DownloadWhenFinished ==
    \A id \in StoredJobs :
        /\ Download(id).archive
           <=> /\ JobOf(id).status \in {"completed", "completed_with_errors"}
               /\ disk[id].zip
        /\ JobOf(id).status \in {"processing", "failed"}
           => Download(id).code \in 400..499 /\ ~Download(id).archive


\* the files a package of four variants consists of, the v-th with segs[v]
\* segments: the top-level manifest, then per variant its sub-manifest and
\* its segments
CompletePackage(segs) ==
    { << "master.m3u8" >> }
        \cup { << BITRATE_LADDER[v].name, "index.m3u8" >> : v \in 1..Len(BITRATE_LADDER) }
        \cup UNION { { << BITRATE_LADDER[v].name, SegmentNames[k] >> : k \in 1..segs[v] } :
                       v \in 1..Len(BITRATE_LADDER) }

TerminalStatuses == {"completed", "completed_with_errors", "failed"}

\* C14: once the job of an id has a terminal status, its status, entries,
\* counts and error are the same in every later state in which the id has a
\* job, also when a later submission carries the same id.
C14_TerminalIsFinal ==
    [][ \A id \in JobIds :
          (/\ store[id] # 0 /\ JobOf(id).status \in TerminalStatuses
           /\ store'[id] # 0)
          => /\ job'[store'[id]].status = JobOf(id).status
             /\ job'[store'[id]].files = JobOf(id).files
             /\ job'[store'[id]].completedFiles = JobOf(id).completedFiles
             /\ job'[store'[id]].failedFiles = JobOf(id).failedFiles
             /\ job'[store'[id]].error = JobOf(id).error ]_vars

\* C17: a submission under an id that has a job leaves that job's record as
\* it was; under an id without a job it inserts a record whose entries are
\* pending, one per file in submission order.
C17_DuplicateIdRejected ==
    [][ \A id \in JobIds, fl \in FileLists :
          Submit(id, fl)
          => IF store[id] # 0
             THEN store'[id] = store[id] /\ job'[store[id]] = JobOf(id)
             ELSE /\ store'[id] # 0
                  /\ NewJob(id, fl, now).files
                        = [k \in 1..Len(fl) |-> NewFileEntry(fl[k])] ]_vars


EntriesSettled(j) ==
    \A k \in 1..Len(j.files) : j.files[k].status \in {"completed", "failed"}

\* C15 as stated: a job of the store whose status is no longer processing has
\* every entry completed or failed, for any submitted list of files.
C15_NoTerminalWithOpenEntry_AnyNames ==
    \A id \in StoredJobs :
        JobOf(id).status # "processing" => EntriesSettled(JobOf(id))

\* C15, amended: the same for a job whose files have pairwise distinct names.
C15_NoTerminalWithOpenEntry ==
    \A id \in StoredJobs :
        (JobOf(id).status # "processing" /\ DistinctNames(files[store[id]]))
        => EntriesSettled(JobOf(id))

\* a stored job of two files of distinct names has ended completed_with_errors,
\* its first entry failed and its second completed
C15_Witness ==
    \E id \in StoredJobs :
        /\ JobOf(id).status = "completed_with_errors"
        /\ Len(files[store[id]]) = 2 /\ DistinctNames(files[store[id]])
        /\ JobOf(id).files[1].status = "failed"
        /\ JobOf(id).files[2].status = "completed"


\* C16: a job object whose status is completed or completed_with_errors has a
\* zipPath; one whose status is failed has no completed file and at least one
\* failed entry, or it has a top-level error.
C16_TerminalFieldsConsistent ==
    \A p \in DOMAIN job :
        /\ job[p].status \in {"completed", "completed_with_errors"}
           => job[p].zipPath # None
        /\ job[p].status = "failed"
           => \/ /\ job[p].completedFiles = 0
                 /\ CountStatus(job[p].files, "failed") >= 1
              \/ job[p].error # None

\* one job ended completed_with_errors; another ended failed although a file
\* of it is completed, because its archive could not be written
C16_Witness ==
    \E p, q \in DOMAIN job :
        /\ job[p].status = "completed_with_errors"
        /\ job[q].status = "failed" /\ job[q].completedFiles >= 1


\* the pipelines whose job is in the store
StoredPipes == { p \in DOMAIN job : store[job[p].jobId] = p }

\* the files of a pipeline are built one after the other in submission order:
\* while it encodes it is at the file after those that have an outcome, and
\* it leaves the loop only when every file has one
AttemptedInOrder(p) ==
    /\ pc[p] = "encoding" => fi[p] = Len(results[p]) + 1
    /\ pc[p] \in {"archiving", "done"} => BuiltAll(p)

FailuresRecorded(p) ==
    \A k \in 1..Len(results[p]) :
        results[p][k] = "fail"
        => job[p].files[k].status = "failed" /\ job[p].files[k].error # None

\* C18 as stated: for a job that is not deleted, the failure of the build of
\* file i is recorded on the i-th entry (failed, with an error), and every
\* file is attempted once, in submission order, whatever the earlier outcomes.
C18_FailureIsPerFile_AnyNames ==
    \A p \in StoredPipes : FailuresRecorded(p) /\ AttemptedInOrder(p)

\* C18, amended: the same for a job whose files have pairwise distinct names.
C18_FailureIsPerFile ==
    \A p \in StoredPipes :
        DistinctNames(files[p]) => FailuresRecorded(p) /\ AttemptedInOrder(p)

\* the build of the first of two files failed, the second was built after it
C18_Witness ==
    \E p \in StoredPipes :
        /\ pc[p] = "done" /\ DistinctNames(files[p])
        /\ results[p] = << "fail", "ok" >>
        /\ job[p].files[1].error # None


\* C19 as stated: the package directory of a build that failed holds no
\* top-level manifest.
C19_ManifestOnlyOfOwnBuild ==
    \A p \in DOMAIN job :
        \A k \in 1..Len(results[p]) :
            results[p][k] = "fail"
            => Basename(files[p][k]) \notin disk[job[p].jobId].manifests

\* C19, amended: a build succeeds only in the step in which the encoder of the
\* fourth variant succeeds, and writes the manifest then; the step in which a
\* variant fails ends the build, writes no manifest and starts no encoder but
\* the first of the next file; a manifest is written into a package directory
\* only by a build that succeeds, so for files of pairwise distinct names the
\* package directory of a build that failed holds no manifest.
C19_AllOrNothingBuild ==
    /\ [](\A p \in DOMAIN job :
            DistinctNames(files[p])
            => \A k \in 1..Len(results[p]) :
                  results[p][k] = "fail"
                  => Basename(files[p][k]) \notin disk[job[p].jobId].manifests)
    /\ [][ /\ \A p \in DOMAIN job :
                /\ results'[p] = Append(results[p], "ok")
                   => /\ pc[p] = "encoding" /\ vi[p] = Len(BITRATE_LADDER)
                      /\ Basename(files[p][fi[p]]) \in disk'[job[p].jobId].manifests
                /\ results'[p] = Append(results[p], "fail")
                   => /\ disk'[job[p].jobId].manifests = disk[job[p].jobId].manifests
                      /\ pc'[p] = "encoding" => fi'[p] = fi[p] + 1 /\ vi'[p] = 1
           /\ \A id \in JobIds :
                \A folder \in disk'[id].manifests \ disk[id].manifests :
                   \E p \in DOMAIN job :
                       /\ job[p].jobId = id /\ folder = Basename(files[p][fi[p]])
                       /\ results'[p] = Append(results[p], "ok") ]_vars

\* of two files of distinct names the first was built, the second failed: the
\* folder of the first has a manifest, that of the second has its directories
\* and no manifest
C19_Witness ==
    \E p \in DOMAIN job :
        /\ results[p] = << "ok", "fail" >> /\ DistinctNames(files[p])
        /\ Basename(files[p][1]) \in disk[job[p].jobId].manifests
        /\ Basename(files[p][2]) \in disk[job[p].jobId].dirs
        /\ Basename(files[p][2]) \notin disk[job[p].jobId].manifests


\* a file name with its extension stripped: without its last "." and what
\* follows it (a name that only starts with a "." has no extension)
StripExtension(name) ==
    LET dots == { k \in 2..Len(name) : name[k] = "." }
    IN IF dots = {} THEN name
       ELSE SubSeq(name, 1, (CHOOSE k \in dots : \A m \in dots : m <= k) - 1)

\* C20: for every file the upload layer accepted, the package folder is the
\* file name with its extension stripped; "a.mp3" yields "a".
C20_FolderIsNameWithoutExtension ==
    /\ Basename(<< "a", ".", "m", "p", "3" >>) = << "a" >>
    /\ \A p \in DOMAIN job :
          \A k \in 1..Len(files[p]) :
              /\ Basename(files[p][k]) = StripExtension(files[p][k])
              /\ job[p].files[k].hlsFolder # None
                 => job[p].files[k].hlsFolder[1] = StripExtension(files[p][k])


\* MAX_CONCURRENT_JOBS: the default of the documented setting, and the values
\* an operator may set it to up to that default
MAX_CONCURRENT_JOBS_DEFAULT == 5
ConfiguredMaximums == 1..MAX_CONCURRENT_JOBS_DEFAULT

\* C21: whatever maximum of parallel jobs is configured, the number of
\* pipelines running at the same time does not exceed it.
C21_AdmissionLimit ==
    \A m \in ConfiguredMaximums :
        Cardinality({ p \in DOMAIN job : Running(p) }) <= m


\* what will delete the directory of an id: the sweep, for a job of the store,
\* or the cleanup timer of a synchronous request (set when it responds)
HasCleanupAhead(id) ==
    \/ store[id] # 0
    \/ \E r \in SyncReqs :
          sync[r].jobId = id /\ (sync[r].timer \/ sync[r].pc = "encoding")

\* C22: every job directory on disk is one that the sweep or a scheduled
\* cleanup will delete, also the directory of a job that was deleted or
\* evicted while its pipeline was running.
C22_NoDirectoryWithoutCleanup ==
    \A id \in JobIds : disk[id].exists => HasCleanupAhead(id)


\* C23: what a caller obtained from getJobStatus(id) and kept shows the same
\* status, entries and counts after any later step of the service.
C23_StatusIsSnapshot ==
    [][ \A id \in JobIds :
          LET held == GetJobStatusRef(id)
          IN (held # 0 /\ held \in DOMAIN job')
             => /\ job'[held].status = job[held].status
                /\ job'[held].files = job[held].files
                /\ job'[held].completedFiles = job[held].completedFiles
                /\ job'[held].failedFiles = job[held].failedFiles ]_vars


\* the encoder processes running for the job of an id
Encoders(id) == { p \in DOMAIN job : job[p].jobId = id /\ pc[p] = "encoding" }

\* C24: a job never has two encoder processes; the encoder it has is that of
\* one variant of one of its files, the variants being low, medium, high,
\* premium in this order; an encoder is started only as the first of the job,
\* or for the next variant of the same file when the previous one has
\* succeeded, or for the first variant of the next file when the build of the
\* previous file has ended.
C24_OneEncoderAtATime ==
    /\ [](/\ [v \in 1..Len(BITRATE_LADDER) |-> BITRATE_LADDER[v].name]
                = << "low", "medium", "high", "premium" >>
          /\ \A id \in JobIds : Cardinality(Encoders(id)) <= 1
          /\ \A p \in DOMAIN job :
                pc[p] = "encoding"
                => vi[p] \in 1..Len(BITRATE_LADDER) /\ fi[p] \in 1..Len(files[p]))
    /\ [][ \A p \in DOMAIN job' :
             (pc'[p] = "encoding" /\ << fi'[p], vi'[p] >> # << fi[p], vi[p] >>)
             => \/ p \notin DOMAIN job /\ fi'[p] = 1 /\ vi'[p] = 1
                \/ /\ p \in DOMAIN job /\ pc[p] = "encoding"
                   /\ fi'[p] = fi[p] /\ vi'[p] = vi[p] + 1
                   /\ totalSegments'[p] > totalSegments[p]
                \/ /\ p \in DOMAIN job /\ pc[p] = "encoding"
                   /\ fi'[p] = fi[p] + 1 /\ vi'[p] = 1
                   /\ Len(results'[p]) = Len(results[p]) + 1 ]_vars

\* one job runs the premium encoder of its second file while another job
\* runs an encoder of its own
C24_Witness ==
    \E p, q \in DOMAIN job :
        /\ p # q /\ pc[p] = "encoding" /\ pc[q] = "encoding"
        /\ fi[p] = 2 /\ BITRATE_LADDER[vi[p]].name = "premium"


\* the entries of a pipeline's job show the work done so far: the files that
\* have an outcome are completed or failed accordingly, the next one is
\* processing, those after it are pending
PrefixOfFinishedWork(p) ==
    LET n == Len(results[p])
    IN \A k \in 1..Len(files[p]) :
          /\ k <= n => job[p].files[k].status =
                          (IF results[p][k] = "ok" THEN "completed" ELSE "failed")
          /\ k = n + 1 => job[p].files[k].status = "processing"
          /\ k > n + 1 => job[p].files[k].status = "pending"

\* C25 as stated: in every state the entries of a job of the store form this
\* prefix of finished work, for any list of files.
C25_EntriesFormPrefix_AnyNames ==
    \A p \in StoredPipes : PrefixOfFinishedWork(p)

\* C25, amended: the same for a job whose files have pairwise distinct names.
C25_EntriesFormPrefix ==
    \A p \in StoredPipes : DistinctNames(files[p]) => PrefixOfFinishedWork(p)

\* the first of two files has failed and the second is being encoded
C25_Witness ==
    \E p \in StoredPipes :
        /\ pc[p] = "encoding" /\ fi[p] = 2 /\ DistinctNames(files[p])
        /\ job[p].files[1].status = "failed"
        /\ job[p].files[2].status = "processing"


\* the variant streams a player reads from a top-level manifest: for each
\* #EXT-X-STREAM-INF line, in order, its bandwidth and the URI on the next line
ManifestEntries(lines) ==
    LET at == { i \in 1..(Len(lines) - 1) :
                  lines[i].kind = "stream-inf" /\ lines[i + 1].kind = "uri" }
        nth(k) == CHOOSE i \in at : Cardinality({ j \in at : j < i }) = k - 1
    IN [k \in 1..Cardinality(at) |->
          [bandwidth |-> lines[nth(k)].bandwidth, path |-> lines[nth(k) + 1].path]]

ExitsWithCodeZero(p) ==
    \/ \E n \in 1..MaxSegments : VariantSucceeds(p, n)
    \/ VariantCloseThrows(p)

\* the variant of pipeline p has succeeded in this step: transcodeFile took its
\* segment count and went on to the next variant or finished the build
VariantResolved(p) ==
    /\ p \in DOMAIN job'
    /\ \/ vi'[p] = vi[p] + 1 /\ totalSegments'[p] > totalSegments[p]
       \/ results'[p] = Append(results[p], "ok")

\* C27: a variant encode succeeds exactly in the steps in which its encoder
\* exits with code 0; a step in which it exits otherwise or cannot be started
\* fails the build of the file.
C27_SuccessIffExitZero ==
    [][ \A p \in DOMAIN job :
          /\ ExitsWithCodeZero(p) <=> VariantResolved(p)
          /\ (\E msg \in EncodeErrors : VariantFails(p, msg))
             => results'[p] = Append(results[p], "fail") ]_vars


\* the index of the last file of fl that has the name of its k-th file
LastOfName(fl, k) ==
    CHOOSE m \in k..Len(fl) :
        /\ fl[m] = fl[k]
        /\ \A i \in (m + 1)..Len(fl) : fl[i] # fl[k]

\* C28: the entry of a file whose name an earlier file of the job has too
\* stays pending; once all files are built, the entry of the first file of a
\* name has the status of the build of the last file of that name.
C28_DuplicateNamesHitFirstEntry ==
    \A p \in DOMAIN job :
        \A k \in 1..Len(files[p]) :
            IF \E m \in 1..(k - 1) : files[p][m] = files[p][k]
            THEN job[p].files[k].status = "pending"
            ELSE (p \in StoredPipes /\ BuiltAll(p))
                 => job[p].files[k].status =
                       (IF results[p][LastOfName(files[p], k)] = "ok"
                        THEN "completed" ELSE "failed")

\* of two files of the same name the first was built and the second failed:
\* the first entry is failed, the second pending
C28_Witness ==
    \E p \in StoredPipes :
        /\ Len(files[p]) = 2 /\ files[p][1] = files[p][2]
        /\ results[p] = << "ok", "fail" >>
        /\ job[p].files[1].status = "failed"
        /\ job[p].files[2].status = "pending"


EntryFieldsFit(e) ==
    /\ e.status = "failed" => e.error # None
    /\ e.status = "completed" => e.hlsFolder # None /\ e.error = None
    /\ e.status = "pending"
       => e.hlsFolder = None /\ e.segmentCount = 0 /\ e.error = None

\* C29 as stated: in every state a failed entry has an error message, a
\* completed entry has a package folder and no error, a pending entry has no
\* folder, no segments and no error.
C29_EntryFieldsFitStatus_AnyNames ==
    \A p \in DOMAIN job :
        \A k \in 1..Len(job[p].files) : EntryFieldsFit(job[p].files[k])

\* C29, amended: the same for the entries of a job whose files have pairwise
\* distinct names.
C29_EntryFieldsFitStatus ==
    \A p \in DOMAIN job :
        DistinctNames(files[p])
        => \A k \in 1..Len(job[p].files) : EntryFieldsFit(job[p].files[k])

\* one job has a failed and a completed entry, another a pending one
C29_Witness ==
    \E p, q \in DOMAIN job :
        /\ DistinctNames(files[p]) /\ DistinctNames(files[q])
        /\ Len(files[p]) = 2 /\ Len(files[q]) = 2
        /\ job[p].files[1].status = "failed" /\ job[p].files[2].status = "completed"
        /\ job[q].files[2].status = "pending"

\* ---------------------------------------------------------------------------
\* Termination of a job
\* ---------------------------------------------------------------------------

\* the job stored under id is still being worked on
StillProcessing(id) == store[id] # 0 /\ JobOf(id).status = "processing"

\* C30: every submitted job that is not deleted or evicted eventually reaches a
\* terminal status. A job that is to reach one has to stay in the store until it
\* does: as long as no job has been deleted or evicted, a job that is still
\* processing is not lost because the process ends under it.
C30_ProcessingJobReachesTerminal ==
    [][ (\A p \in Pipes : deleted[p] = "no")
        => \A id \in JobIds :
              StillProcessing(id) => store'[id] # 0 \/ crash' # "down" ]_vars

\* ---------------------------------------------------------------------------
\* Registration at submission
\* ---------------------------------------------------------------------------

\* the step deletes the job stored under id (DELETE /job/:jobId) or evicts it
\* (the sweep)
DeletedOrEvicted(id) ==
    \/ CleanupJob(id)
    \/ \E t \in 0..MaxThreshold : id \in Expired(t) /\ CleanupOldJobs(t)

\* C31: the job is in the store, with status processing, in the state in which
\* the submission response is sent: no job ever has the overall status pending,
\* the turn that answers a submission leaves its job registered, and while the
\* server runs a registered job leaves the store only by being deleted or
\* evicted, so that a status query finds it until then.
C31_RegisteredBeforeResponse ==
    /\ [](\A p \in DOMAIN job : job[p].status # "pending")
    /\ [][ /\ \A p \in DOMAIN job' :
                p \notin DOMAIN job => store'[job'[p].jobId] = p
           /\ \A id \in JobIds :
                GetJobStatusRef(id) # 0 /\ crash' # "down"
                => GetJobStatusRef(id)' = GetJobStatusRef(id) \/ DeletedOrEvicted(id)
        ]_vars

\* the response of one submission has just been sent and its job is found as
\* processing, while the job of an earlier submission has been deleted
C31_Witness ==
    \E p, q \in DOMAIN job :
        /\ crash # "down"
        /\ deleted[p] = "no" /\ fi[p] = 1 /\ vi[p] = 1 /\ pc[p] = "encoding"
        /\ GetJobStatus(job[p].jobId) = Some(job[p])
        /\ job[p].status = "processing"
        /\ deleted[q] # "no" /\ GetJobStatus(job[q].jobId) = None

\* ---------------------------------------------------------------------------
\* Job ids of the upload requests
\* ---------------------------------------------------------------------------

\* C32: every upload request that reaches the storage layer, on /transcode and
\* on /api/transcode-sync, has a job id by then, and no two of them have the
\* same: the requests write under directories of their own.
C32_UploadHasOwnJobId ==
    /\ \A r \in SyncReqs : sync[r].pc = "uploading" => sync[r].jobId # 0
    /\ \A p \in DOMAIN job : job[p].jobId # 0
    /\ \A p, q \in DOMAIN job : job[p].jobId = job[q].jobId => p = q
    /\ \A r \in SyncReqs, p \in DOMAIN job :
          sync[r].pc # "idle" => sync[r].jobId # job[p].jobId

====
